---- MODULE Spec2Model ----
(***************************************************************************)
(* A model of sudsolve's solver.py: solve_board's loop of an elimination   *)
(* pass and a hidden-single pass over a 9x9 board, followed by             *)
(* check_solution.                                                         *)
(*                                                                         *)
(* Encoding of the values a board cell can hold:                           *)
(*   0        the unknown marker "X"                                       *)
(*   1..9     the strings "1".."9" (what pandas yields for a column of the *)
(*            csv that holds an "X", and what the solver writes)           *)
(*   11..19   the integers 1..9 (what pandas yields for a column of the    *)
(*            csv that holds no "X": the column is parsed as int64)        *)
(* A string and an integer are different Python objects: "5" != 5, and a   *)
(* set holds both.  Candidates are strings, encoded 1..9.                  *)
(***************************************************************************)
EXTENDS Integers, Sequences, FiniteSets

VARIABLES csv, board, unknowns, iterations, start_board, pc, k, outcome

vars == <<csv, board, unknowns, iterations, start_board, pc, k, outcome>>

\* ------------------------------------------------------------ constants

\* range(9): the side of the board
N == 9

\* X // 3 * 3: the side of a square
B == 3

\* the marker "X" of an unknown cell
X == 0

\* np.sum(board) == 405
Total == 405

I == 0 .. (N - 1)

Cells == I \X I

Symbols == 1 .. N

\* ---------------------------------------------------------------- bounds

\* how many cells, beyond a mask, an input may have blanked
MaxExtra == 2

\* ------------------------------------------------------ Python values

PyStr(v) == v

PyInt(v) == v + 10

\* int(x) of astype(int): int("5") = 5 and int(5) = 5
AsInt(c) == c % 10

Range(s) == {s[n] : n \in 1 .. Len(s)}

\* ---------------------------------------------------------- the inputs

\* a solved grid: the tokens of a csv file without an "X"
Base == [c \in Cells |-> ((c[1] * 3 + (c[1] \div 3) + c[2]) % 9) + 1]

\* solved grids: Base, its transpose, and Base with the symbols relabelled
Grids ==
    << Base,
       [c \in Cells |-> Base[<<c[2], c[1]>>]],
       [c \in Cells |-> 10 - Base[c]] >>

ModMask(m, p, q, t) == {c \in Cells : (c[1] * p + c[2] * q) % m < t}

\* the cells blanked in an input: none, one per column, and two puzzles
\* that need several rounds of both passes
Masks == << {}, ModMask(9, 1, 1, 1), ModMask(11, 4, 1, 4), ModMask(8, 3, 1, 2) >>

\* further cells an input may have blanked
ExtraCells ==
    { <<1, 0>>, <<4, 0>>, <<1, 4>>, <<7, 5>>, <<0, 4>>, <<5, 7>>, <<4, 3>> }

\* a given cell overwritten with the symbol of another cell of its column
\* or row: the overwritten cell's row then holds that symbol twice
Corruptions ==
    << [cell |-> <<0, 3>>, from |-> <<0, 5>>],
       [cell |-> <<0, 5>>, from |-> <<7, 5>>] >>

Corrupt(g, n) ==
    IF n = 0 THEN g
    ELSE [g EXCEPT ![Corruptions[n].cell] = g[Corruptions[n].from]]

Blank(g, cells) == [c \in Cells |-> IF c \in cells THEN X ELSE g[c]]

Inputs ==
    { Blank(Corrupt(Grids[t], n), Masks[m] \cup e) :
        t \in 1 .. Len(Grids),
        m \in 1 .. Len(Masks),
        n \in 0 .. Len(Corruptions),
        e \in {s \in SUBSET ExtraCells : Cardinality(s) <= MaxExtra} }

\* ------------------------------------------------------------ the code

\* pd.read_csv(...).to_numpy(): a column without "X" is parsed as integers,
\* a column with an "X" stays strings
create_board(tokens) ==
    [c \in Cells |->
        IF tokens[c] = X THEN X
        ELSE IF \E i \in I : tokens[<<i, c[2]>>] = X THEN PyStr(tokens[c])
        ELSE PyInt(tokens[c])]

AllCandidates == [n \in 1 .. N |-> PyStr(n)]

create_unknowns_dict(b) ==
    [c \in {d \in Cells : b[d] = X} |-> AllCandidates]

\* the cells in row-major order: the insertion order of the dict
RowMajor == [n \in 1 .. (N * N) |-> <<(n - 1) \div N, (n - 1) % N>>]

\* for key in unknowns
Keys(u) == SelectSeq(RowMajor, LAMBDA c : c \in DOMAIN u)

NotX(x) == x # X

get_row(b, r) == SelectSeq([n \in 1 .. N |-> b[<<r, n - 1>>]], NotX)

get_column(b, y) == SelectSeq([n \in 1 .. N |-> b[<<n - 1, y>>]], NotX)

SquareCells(r, y) ==
    [n \in 1 .. (B * B) |->
        <<(r \div B) * B + ((n - 1) \div B), (y \div B) * B + ((n - 1) % B)>>]

get_square(b, r, y) ==
    SelectSeq([n \in 1 .. (B * B) |-> b[SquareCells(r, y)[n]]], NotX)

impossible_values(r, y, b) ==
    Range(get_row(b, r) \o get_column(b, y) \o get_square(b, r, y))

\* a faulty variant: the candidates are derived afresh from all nine symbols
remove_impossible_values_recompute(r, y, possible, b) ==
    SelectSeq(AllCandidates, LAMBDA v : v \notin impossible_values(r, y, b))

\* a faulty variant: the column is left out of the impossible values
remove_impossible_values_no_column(r, y, possible, b) ==
    SelectSeq(possible,
        LAMBDA v : v \notin Range(get_row(b, r) \o get_square(b, r, y)))

\* a faulty variant: only the first impossible value of the list is removed
remove_impossible_values_first_only(r, y, possible, b) ==
    LET hits == {n \in 1 .. Len(possible) :
                    possible[n] \in impossible_values(r, y, b)}
        first == CHOOSE n \in hits : \A m \in hits : n <= m
    IN  IF hits = {} THEN possible
        ELSE SubSeq(possible, 1, first - 1)
                \o SubSeq(possible, first + 1, Len(possible))

remove_impossible_values(r, y, possible, b) ==
    SelectSeq(possible, LAMBDA v : v \notin impossible_values(r, y, b))

flattened_row(key, u) ==
    UNION {Range(u[x]) : x \in {d \in DOMAIN u : d[1] = key[1] /\ d # key}}

flattened_column(key, u) ==
    UNION {Range(u[x]) : x \in {d \in DOMAIN u : d[2] = key[2] /\ d # key}}

flattened_square(key, u) ==
    UNION {Range(u[x]) :
            x \in {d \in Range(SquareCells(key[1], key[2])) :
                        d # key /\ d \in DOMAIN u}}

\* a faulty variant: the value must be missing from all three groups
check_only_possible_location_all(key, value, u) ==
    /\ value \notin flattened_row(key, u)
    /\ value \notin flattened_column(key, u)
    /\ value \notin flattened_square(key, u)

check_only_possible_location(key, value, u) ==
    \/ value \notin flattened_row(key, u)
    \/ value \notin flattened_column(key, u)
    \/ value \notin flattened_square(key, u)

\* a faulty variant: the loop condition always holds (the body runs before the test)
HasX_always(b) == TRUE

\* "X" in board
HasX(b) == \E c \in Cells : b[c] = X

\* a faulty variant: the copy is compared by identity, which never holds
array_equal_identity(a, b) == FALSE

\* np.array_equal(start_board, board)
array_equal(a, b) == \A c \in Cells : a[c] = b[c]

\* a faulty variant: the lists are pruned against the copy of the grid taken
\* when the round began
ElimStep_snapshot(b, u, key) ==
    LET possible ==
            remove_impossible_values(key[1], key[2], u[key], start_board)
    IN  [unknowns |-> [u EXCEPT ![key] = possible],
         board |-> IF Len(possible) = 1
                   THEN [b EXCEPT ![key] = possible[1]]
                   ELSE b]

\* a faulty variant: a key whose cell holds a symbol is passed over
ElimStep_skip_resolved(b, u, key) ==
    LET possible == remove_impossible_values(key[1], key[2], u[key], b)
    IN  IF b[key] # X THEN [unknowns |-> u, board |-> b]
        ELSE [unknowns |-> [u EXCEPT ![key] = possible],
              board |-> IF Len(possible) = 1
                        THEN [b EXCEPT ![key] = possible[1]]
                        ELSE b]

\* one iteration of the first for loop: prune, then write a singleton
ElimStep(b, u, key) ==
    LET possible == remove_impossible_values(key[1], key[2], u[key], b)
    IN  [unknowns |-> [u EXCEPT ![key] = possible],
         board |-> IF Len(possible) = 1
                   THEN [b EXCEPT ![key] = possible[1]]
                   ELSE b]

\* the position of the first value of the list that passes the check, or 0
FirstLocation(key, u) ==
    LET hits == {n \in 1 .. Len(u[key]) :
                    check_only_possible_location(key, u[key][n], u)}
    IN  IF hits = {} THEN 0 ELSE CHOOSE n \in hits : \A m \in hits : n <= m

\* one iteration of the second for loop
HiddenStep(b, u, key) ==
    LET n == FirstLocation(key, u)
    IN  IF n = 0 THEN [unknowns |-> u, board |-> b]
        ELSE [unknowns |-> [u EXCEPT ![key] = <<u[key][n]>>],
              board |-> [b EXCEPT ![key] = u[key][n]]]

RowSet(b, r) == {b[<<r, j>>] : j \in I}

ColSet(b, y) == {b[<<i, y>>] : i \in I}

BoxSet(b, i, j) == {b[<<i * B + di, j * B + dj>>] : di, dj \in 0 .. (B - 1)}

RECURSIVE SumSeq(_)
SumSeq(s) == IF s = <<>> THEN 0 ELSE Head(s) + SumSeq(Tail(s))

\* np.sum(board.astype(int))
SumCells(b) ==
    SumSeq([r \in 1 .. N |-> SumSeq([j \in 1 .. N |-> AsInt(b[<<r - 1, j - 1>>])])])

\* the assertions of check_solution in their order; astype(int) raises a
\* ValueError on "X"
check_solution(b) ==
    IF \E r \in I : Cardinality(RowSet(b, r)) # N THEN "AssertionError"
    ELSE IF \E y \in I : Cardinality(ColSet(b, y)) # N THEN "AssertionError"
    ELSE IF \E i, j \in 0 .. (B - 1) : Cardinality(BoxSet(b, i, j)) # N
        THEN "AssertionError"
    ELSE IF \E c \in Cells : b[c] = X THEN "AssertionError"
    ELSE IF \E c \in Cells : b[c] = X THEN "ValueError"
    ELSE IF \E c \in Cells : AsInt(b[c]) > N \/ AsInt(b[c]) < 1
        THEN "AssertionError"
    ELSE IF SumCells(b) # Total THEN "AssertionError"
    ELSE "ok"

\* a faulty variant: the handler catches ValueError, so an AssertionError escapes
Report_except_ValueError(b) ==
    LET r == check_solution(b)
    IN  IF r = "ok" THEN "SOLVED"
        ELSE IF r = "ValueError" THEN "NOT SOLVED"
        ELSE r

\* the try/except around check_solution
Report(b) ==
    LET r == check_solution(b)
    IN  IF r = "ok" THEN "SOLVED"
        ELSE IF r = "AssertionError" THEN "NOT SOLVED"
        ELSE r

\* ---------------------------------------------------------- the machine

Init ==
    /\ csv \in Inputs
    /\ board = create_board(csv)
    /\ unknowns = create_unknowns_dict(create_board(csv))
    /\ iterations = 0
    /\ start_board = create_board(csv)
    /\ pc = "while"
    /\ k = 1
    /\ outcome = "none"

\* while "X" in board: start_board = board.copy()
While ==
    /\ pc = "while"
    /\ IF HasX(board)
       THEN /\ start_board' = board
            /\ pc' = "elim"
            /\ k' = 1
       ELSE /\ pc' = "check"
            /\ UNCHANGED <<start_board, k>>
    /\ UNCHANGED <<csv, board, unknowns, iterations, outcome>>

\* for key in unknowns: remove_impossible_values, write a singleton;
\* the loop ends when the keys are exhausted
Eliminate ==
    /\ pc = "elim"
    /\ IF k <= Len(Keys(unknowns))
       THEN /\ LET r == ElimStep(board, unknowns, Keys(unknowns)[k])
               IN  /\ unknowns' = r.unknowns
                   /\ board' = r.board
            /\ k' = k + 1
            /\ pc' = "elim"
       ELSE /\ k' = 1
            /\ pc' = "hidden"
            /\ UNCHANGED <<unknowns, board>>
    /\ UNCHANGED <<csv, iterations, start_board, outcome>>

\* for key in unknowns: for value in unknowns[key]: ... break
Hidden ==
    /\ pc = "hidden"
    /\ IF k <= Len(Keys(unknowns))
       THEN /\ LET r == HiddenStep(board, unknowns, Keys(unknowns)[k])
               IN  /\ unknowns' = r.unknowns
                   /\ board' = r.board
            /\ k' = k + 1
            /\ pc' = "hidden"
       ELSE /\ k' = 1
            /\ pc' = "endround"
            /\ UNCHANGED <<unknowns, board>>
    /\ UNCHANGED <<csv, iterations, start_board, outcome>>

\* iterations += 1; if np.array_equal(start_board, board): break
EndRound ==
    /\ pc = "endround"
    /\ iterations' = iterations + 1
    /\ pc' = IF array_equal(start_board, board) THEN "check" ELSE "while"
    /\ UNCHANGED <<csv, board, unknowns, start_board, k, outcome>>

\* try: check_solution(board) ... except AssertionError; return board
Check ==
    /\ pc = "check"
    /\ outcome' = Report(board)
    /\ pc' = "done"
    /\ UNCHANGED <<csv, board, unknowns, iterations, start_board, k>>

Next == While \/ Eliminate \/ Hidden \/ EndRound \/ Check

Spec == Init /\ [][Next]_vars

\* ------------------------------------------------------------ properties

\* the 27 groups: 9 rows, 9 columns, 9 squares
Groups ==
    {{<<r, j>> : j \in I} : r \in I}
        \cup {{<<i, y>> : i \in I} : y \in I}
        \cup {{<<i * B + di, j * B + dj>> : di, dj \in 0 .. (B - 1)} :
                i, j \in 0 .. (B - 1)}

\* the cells of a grid that hold the unknown marker
Unknown(g) == {c \in Cells : g[c] = X}

\* the symbols 1..9 the cells of a group hold, whatever their Python type
SymbolsOf(g, grp) == {AsInt(g[c]) : c \in grp \ Unknown(g)}

\* no group of the grid holds a symbol twice, and no cell is unknown
ValidGrid(g) ==
    /\ Unknown(g) = {}
    /\ \A grp \in Groups : SymbolsOf(g, grp) = Symbols

\* the cells of the input that were unknown and hold a symbol now
Resolved == {c \in DOMAIN unknowns : board[c] # X}

\* the loop was left by the break of a round without progress
Stalled == pc \in {"check", "done"} /\ Unknown(board) # {}

\* the loop was left because no cell is unknown
Complete == pc \in {"check", "done"} /\ Unknown(board) = {}

\* C1: whenever SOLVED is reported, the final grid has no unknown cell and
\* each of the 27 groups holds the nine symbols 1..9, pairwise distinct.
C1_SolvedIsValid == outcome = "SOLVED" => ValidGrid(board)

\* the steps of one round still to come, counted from the end of the round
RoundLeft ==
    LET len == Len(Keys(unknowns))
    IN  IF pc = "while" THEN 2 * len + 4
        ELSE IF pc = "elim" THEN 2 * len + 4 - k
        ELSE IF pc = "hidden" THEN len + 3 - k
        ELSE 1

\* a bound on the steps to come: it falls with every step of the program
Rank ==
    IF pc = "done" THEN 0
    ELSE IF pc = "check" THEN 1
    ELSE 1 + (N * N + 1 - iterations) * (2 * N * N + 5) + RoundLeft

\* C2: the loop terminates, and it does so within 81 rounds: a finished
\* round either resolved a cell that was unknown when it began or left the
\* grid unchanged and stops the loop, so the rounds counted never exceed
\* the resolved cells by more than the one round that stalls; every step
\* lowers a natural number, and every state but the returned one is at a
\* step of the program.
C2_BoundedRounds ==
    /\ [](/\ iterations <= N * N
          /\ iterations <= Cardinality(Resolved) + 1
          /\ pc = "endround" =>
                \/ board = start_board
                \/ \E c \in Cells : start_board[c] = X /\ board[c] # X
          /\ Rank >= 0
          /\ k \in 1 .. (Len(Keys(unknowns)) + 1)
          /\ pc \in {"while", "elim", "hidden", "endround", "check", "done"})
    /\ [][Rank' < Rank]_vars

C2_Witness == pc = "done" /\ iterations >= 5 /\ Unknown(board) # {}

\* C3: no regression: a cell that holds a symbol keeps that very value in
\* every later step of either pass.
C3_NoRegression ==
    [][\A c \in Cells : board[c] # X => board'[c] = board[c]]_vars

\* a round has run both passes over a cell an earlier round resolved
C3_Witness ==
    /\ pc = "endround"
    /\ iterations >= 1
    /\ \E c \in DOMAIN unknowns : start_board[c] # X

\* C4: monotone elimination: every step leaves each tracked cell with a
\* subset of the candidates it had before the step.
C4_MonotoneElimination ==
    [][/\ DOMAIN unknowns' = DOMAIN unknowns
       /\ \A c \in DOMAIN unknowns :
            Range(unknowns'[c]) \subseteq Range(unknowns[c])]_vars

\* both passes have shrunk candidate lists: one cell was cut down by the
\* hidden-single pass to a singleton and pruned again a round later
C4_Witness ==
    /\ pc = "endround"
    /\ iterations >= 1
    /\ \E c \in DOMAIN unknowns : Len(unknowns[c]) = 0
    /\ \E c \in DOMAIN unknowns : Len(unknowns[c]) \in 2 .. (N - 1)

\* C5: when a prune leaves a still unknown cell without candidates, the
\* loop has been aborted and the outcome reported is neither SOLVED nor
\* the NOT SOLVED of a stall.
C5_UnsatisfiableAborts ==
    (\E c \in DOMAIN unknowns : board[c] = X /\ unknowns[c] = <<>>) =>
        /\ pc \in {"check", "done"}
        /\ pc = "done" => outcome \notin {"SOLVED", "NOT SOLVED"}

\* C6: a stalled loop is reported as NOT SOLVED with the rounds counted,
\* the grid returned is the grid of the round that made no progress (its
\* unknown cells are still unknown), and no exception escapes.
C6_StalledReported ==
    Stalled =>
        /\ iterations >= 1
        /\ board = start_board
        /\ pc = "done" => outcome = "NOT SOLVED"

C6_Witness == Stalled /\ pc = "done" /\ iterations >= 2

\* some row of the input holds the same given symbol twice
RowDuplicate(g) ==
    \E r \in I : \E j1, j2 \in I :
        j1 # j2 /\ g[<<r, j1>>] # X /\ g[<<r, j1>>] = g[<<r, j2>>]

\* C7: an input with two identical given symbols in a row ends Stalled,
\* without a crash, and the Verifier fails.
C7_DuplicateRowStalls ==
    (RowDuplicate(csv) /\ pc = "done") =>
        /\ Unknown(board) # {}
        /\ iterations >= 1
        /\ outcome = "NOT SOLVED"

\* C8: a valid input without unknown cells: no round runs, the loop ends
\* Complete with 0 iterations, the grid is the grid loaded, SOLVED.
C8_SolvedInput ==
    ValidGrid(csv) =>
        /\ pc \in {"while", "check", "done"}
        /\ iterations = 0
        /\ \A c \in Cells : board[c] # X /\ AsInt(board[c]) = csv[c]
        /\ pc = "done" => outcome = "SOLVED"

C8_Witness == ValidGrid(csv) /\ pc = "done" /\ Complete

\* the symbols of 1..9 that the given cells of a group do not hold
MissingIn(g, grp) == Symbols \ {g[d] : d \in grp \ Unknown(g)}

\* the input has exactly one unknown cell, and its row, its column and its
\* square each hold the eight symbols other than one and the same symbol
ScenarioB(g) ==
    /\ Cardinality(Unknown(g)) = 1
    /\ \E v \in Symbols :
        \A grp \in Groups :
            grp \cap Unknown(g) # {} => MissingIn(g, grp) = {v}

\* C9: one unknown cell whose row, column and square hold the other eight
\* symbols: the elimination pass of the first round writes the missing
\* symbol, and the loop ends Complete after exactly one round.
C9_NakedSingle ==
    ScenarioB(csv) =>
        LET c == CHOOSE d \in Cells : csv[d] = X
            v == CHOOSE w \in Symbols : w \notin {csv[<<c[1], j>>] : j \in I}
        IN  /\ iterations <= 1
            /\ (pc = "elim" /\ k > 1) \/ pc \in {"hidden", "endround"} =>
                    /\ iterations = 0
                    /\ board[c] = PyStr(v)
                    /\ unknowns[c] = <<PyStr(v)>>
            /\ pc \in {"check", "done"} =>
                    /\ iterations = 1
                    /\ Unknown(board) = {}
                    /\ board[c] = PyStr(v)

C9_Witness == pc = "done" /\ ScenarioB(csv)

\* the elimination pass of the round has visited every key
ElimPassDone == pc = "elim" /\ k = Len(Keys(unknowns)) + 1

\* C10: when the elimination pass of a round has left the grid as it was,
\* running the pass again changes nothing: from that board and those
\* candidates, the step of every tracked cell leaves both as they are.
C10_EliminationIdempotent ==
    (ElimPassDone /\ board = start_board) =>
        \A key \in DOMAIN unknowns :
            ElimStep(board, unknowns, key) =
                [unknowns |-> unknowns, board |-> board]

\* a pass that left the grid unchanged while it pruned the candidates of a
\* cell resolved the round before
C10_Witness ==
    /\ ElimPassDone
    /\ board = start_board
    /\ iterations >= 1
    /\ \E c \in DOMAIN unknowns : unknowns[c] = <<>>

\* C11: the transitions of the solve loop.  A finished round that left the
\* grid equal to the grid of its start stops the loop Stalled; otherwise the
\* loop stops Complete when no cell is unknown and else starts another
\* round from the grid as it is; the count of iterations grows by one with
\* every finished round and at no other step; once the loop is left no step
\* of a round is taken and the grid stays as it is.
C11_LoopTransitions ==
    [][/\ pc = "endround" =>
            /\ iterations' = iterations + 1
            /\ IF board = start_board
               THEN pc' = "check" /\ Unknown(board') # {}
               ELSE pc' = "while"
       /\ pc = "while" =>
            IF Unknown(board) = {}
            THEN pc' = "check" /\ board' = board
            ELSE pc' = "elim" /\ k' = 1 /\ start_board' = board
                    /\ board' = board
       /\ pc # "endround" => iterations' = iterations
       /\ pc \in {"check", "done"} =>
            /\ pc' = "done"
            /\ board' = board
            /\ unknowns' = unknowns]_vars

\* a round made progress and left unknown cells, a further round has begun
C11_Witness ==
    /\ pc = "elim"
    /\ k = 1
    /\ iterations >= 2
    /\ start_board = board
    /\ Unknown(board) # {}

\* C13, as the claim states it: a cell that was unknown in the input and
\* holds a symbol v is either not a key of the candidate store or has the
\* candidate list [v].
C13_ResolvedSingleton ==
    \A c \in Cells :
        (csv[c] = X /\ board[c] # X) =>
            \/ c \notin DOMAIN unknowns
            \/ unknowns[c] = <<board[c]>>

\* the key was visited by the for loop that is running
Visited(c) ==
    LET ks == Keys(unknowns)
    IN  \E n \in 1 .. (k - 1) : n <= Len(ks) /\ ks[n] = c

\* C13, amended: a cell that was unknown in the input and holds a symbol v
\* stays a key of the candidate store; its candidate list is [v] from the
\* step that resolved it until the elimination pass of the next round
\* visits it, and the empty list from then on.
C13_ResolvedSingletonOrEmpty ==
    \A c \in Cells :
        (csv[c] = X /\ board[c] # X) =>
            /\ c \in DOMAIN unknowns
            /\ unknowns[c] = <<board[c]>> \/ unknowns[c] = <<>>
            /\ start_board[c] = X => unknowns[c] = <<board[c]>>
            /\ (start_board[c] # X /\ (pc # "elim" \/ Visited(c))) =>
                    unknowns[c] = <<>>

\* one resolved cell has lost its own value to the elimination pass of a
\* later round, another still has the list of its value
C13_Witness ==
    \E c, d \in Resolved :
        /\ unknowns[c] = <<>>
        /\ unknowns[d] = <<board[d]>>
        /\ pc = "hidden"

\* the candidates of the tracked cells of a group, the cell itself left out
OthersCandidates(c, grp) ==
    UNION {Range(unknowns[d]) : d \in (grp \cap DOMAIN unknowns) \ {c}}

\* the symbol is no candidate of any other tracked cell of the cell's row,
\* or of its column, or of its square
Forced(c, v) ==
    \E grp \in Groups : c \in grp /\ v \notin OthersCandidates(c, grp)

\* C14: the hidden-single rule.  A step of the hidden-single pass on a key
\* writes the first candidate of the key's list, in the order of the list,
\* that is no candidate of any other tracked cell of the key's row, or of
\* its column, or of its square: the cell of the grid becomes that symbol
\* and the key's list becomes the list of that symbol alone; when no
\* candidate of the list is such, the step changes neither grid nor store.
\* No other cell and no other list changes.
C14_HiddenSingle ==
    [][(pc = "hidden" /\ k <= Len(Keys(unknowns))) =>
        LET key == Keys(unknowns)[k]
            l == unknowns[key]
            q == {n \in 1 .. Len(l) : Forced(key, l[n])}
        IN  IF q = {}
            THEN board' = board /\ unknowns' = unknowns
            ELSE LET n == CHOOSE m \in q : \A j \in q : m <= j
                 IN  /\ board' = [board EXCEPT ![key] = l[n]]
                     /\ unknowns' = [unknowns EXCEPT ![key] = <<l[n]>>]]_vars

\* the hidden-single pass has just resolved a cell that the grid leaves at
\* least two symbols for, so the elimination pass could not resolve it
C14_Witness ==
    /\ pc = "hidden"
    /\ k > 1
    /\ LET key == Keys(unknowns)[k - 1]
       IN  /\ start_board[key] = X
           /\ board[key] # X
           /\ unknowns[key] = <<board[key]>>
           /\ Cardinality(Symbols \
                impossible_values(key[1], key[2],
                                  [board EXCEPT ![key] = X])) >= 2

\* two cells share a row, a column or a square
SameGroup(c, d) ==
    \/ c[1] = d[1]
    \/ c[2] = d[2]
    \/ (c[1] \div B = d[1] \div B /\ c[2] \div B = d[2] \div B)

\* the cells the running elimination pass has written: unknown when the
\* round began, holding a symbol now
WrittenInPass == {d \in Cells : start_board[d] = X /\ board[d] # X}

\* C15: chaining within one elimination pass.  A step of the pass that
\* leaves its key with a single candidate writes that candidate to the
\* grid in the same step, and the list a step leaves its key with holds no
\* symbol the pass has written before into another cell of the key's row,
\* column or square.
C15_ChainedElimination ==
    [][(pc = "elim" /\ k <= Len(Keys(unknowns))) =>
        LET key == Keys(unknowns)[k]
        IN  /\ Len(unknowns'[key]) = 1 => board'[key] = unknowns'[key][1]
            /\ \A d \in WrittenInPass :
                    (d # key /\ SameGroup(d, key)) =>
                        board[d] \notin Range(unknowns'[key])]_vars

\* the pass has just resolved a cell that had two or more symbols left but
\* for a cell of its groups the same pass has written before
C15_Witness ==
    /\ pc = "elim"
    /\ k > 1
    /\ LET key == Keys(unknowns)[k - 1]
       IN  /\ key \in WrittenInPass
           /\ \E d \in WrittenInPass :
                /\ d # key
                /\ SameGroup(d, key)
                /\ Cardinality(Symbols \
                        impossible_values(key[1], key[2],
                            [board EXCEPT ![key] = X, ![d] = X])) >= 2

\* C16, as the claim states it: a resolved cell is no longer tracked: the
\* key a pass visits is a cell that holds no symbol, and no step takes a
\* cell's own symbol from its candidate list.
C16_ResolvedNotVisited ==
    [][(pc \in {"elim", "hidden"} /\ k <= Len(Keys(unknowns))) =>
        LET key == Keys(unknowns)[k]
        IN  /\ board[key] = X
            /\ \A c \in DOMAIN unknowns :
                    (board[c] # X /\ board[c] \in Range(unknowns[c])) =>
                        board[c] \in Range(unknowns'[c])]_vars

\* C16, amended: a resolved cell stays tracked.  The keys of the candidate
\* store are the unknown cells of the input throughout, and either pass of
\* every round visits them all.  A visit of a key whose cell holds a symbol
\* changes no cell of the grid and no list of another key; the elimination
\* pass leaves the key's own list empty (the cell's own symbol is among the
\* symbols of its row), the hidden-single pass leaves it as it is.
C16_ResolvedStillVisited ==
    [][/\ DOMAIN unknowns = Unknown(csv)
       /\ DOMAIN unknowns' = DOMAIN unknowns
       /\ (pc \in {"elim", "hidden"} /\ pc' # pc) =>
            k = Cardinality(Unknown(csv)) + 1
       /\ (pc \in {"elim", "hidden"} /\ k <= Len(Keys(unknowns))) =>
            LET key == Keys(unknowns)[k]
            IN  /\ pc' = pc
                /\ k' = k + 1
                /\ board[key] # X =>
                    /\ board' = board
                    /\ pc = "elim" =>
                            unknowns' = [unknowns EXCEPT ![key] = <<>>]
                    /\ pc = "hidden" => unknowns' = unknowns]_vars

\* the elimination pass of a later round has just visited a cell resolved
\* in the round before and emptied its list; the hidden-single pass of the
\* resolving round had visited it as well
C16_Witness ==
    /\ pc = "elim"
    /\ k > 1
    /\ iterations >= 1
    /\ LET key == Keys(unknowns)[k - 1]
       IN  /\ csv[key] = X
           /\ start_board[key] # X
           /\ unknowns[key] = <<>>

\* some group of the grid holds a symbol in two of its cells
Repeats(g) ==
    \E grp \in Groups :
        Cardinality(SymbolsOf(g, grp)) < Cardinality(grp \ Unknown(g))

\* C17: when no group of the input holds a given symbol twice, no group of
\* any grid the solver reaches holds a symbol twice: the solver never
\* writes a symbol that a cell of the written cell's row, column or square
\* holds already.
C17_NoRepeatedSymbol == ~Repeats(csv) => ~Repeats(board)

\* the grid gives every given cell of the input its symbol
Completes(g, tokens) == \A c \in Cells : tokens[c] # X => tokens[c] = g[c]

\* C18: soundness.  For an input that a valid grid completes, every cell
\* the solver has written holds the symbol that grid gives it, every cell
\* still unknown has that symbol among its candidates, and a run that ends
\* with no unknown cell is reported SOLVED.
C18_Sound ==
    \A t \in 1 .. Len(Grids) :
        (ValidGrid(Grids[t]) /\ Completes(Grids[t], csv)) =>
            /\ \A c \in DOMAIN unknowns :
                    IF board[c] = X
                    THEN Grids[t][c] \in Range(unknowns[c])
                    ELSE AsInt(board[c]) = Grids[t][c]
            /\ (pc = "done" /\ Unknown(board) = {}) => outcome = "SOLVED"

====
